---------------------------- MODULE Spec2Model ----------------------------
(***************************************************************************)
(* A model of pyalarmdotcom: the form-replay client                        *)
(* (pyalarmdotcom/pyalarmdotcom.py, class Alarmdotcom) driven by the host  *)
(* adapter (pyalarmdotcom/alarm_control_panel.py, class AlarmDotCom).      *)
(*                                                                         *)
(* Every coroutine is a frame on the call stack of the task that runs it.  *)
(* A frame is suspended either on a network request (pc "get"/"post") or   *)
(* on a coroutine it called.  One step of the model is what asyncio runs   *)
(* without yielding to the event loop: a call or a portal response is      *)
(* processed, returns and exceptions are delivered to the callers, until   *)
(* the next network request is sent or the task ends.                      *)
(* The portal is the environment: it answers each request with any of the  *)
(* page shapes the parsing code distinguishes, or the request fails with   *)
(* asyncio.TimeoutError / ClientError.  A request fails on its own: the    *)
(* timer that _send keeps around its whole body cancelling a coroutine     *)
(* nested in it is not part of the model.                                  *)
(*                                                                         *)
(* Spec serialises the adapter's operations, SpecConc lets the periodic    *)
(* update and the service calls overlap, and SpecApi is the JSON-API       *)
(* client (pyalarmdotcom/pyalarmdotcomwebapi.py), whose operations are     *)
(* single steps because nothing in them yields to the event loop.          *)
(***************************************************************************)
EXTENDS Integers, Sequences, FiniteSets, TLC

\* Bound of the model: the number of network requests one top-level
\* operation may issue before the portal stops answering with pages that
\* make the client send yet another request.
MaxReqs == 6

\* Python values.
None == "None"
False == "False"
True == "True"

\* The three commands (keys of COMMAND_LIST) and the texts of the
\* alarm-state element.
Events == {"Disarm", "Arm+Stay", "Arm+Away"}
AlarmTexts == {"Disarmed", "Armed Stay", "Armed Away"}

\* Session keys the portal may embed in the login page's URL.
SessionKeys == {"k1", "k2"}

\* Values of CONF_CODE in the platform configuration: absent, or an integer
\* accepted by cv.positive_int (0 included).
ConfigCodes == {[has |-> FALSE, val |-> 0], [has |-> TRUE, val |-> 0],
                [has |-> TRUE, val |-> 12]}

\* PINs a service call may carry (None: no PIN supplied).
Pins == {None, "0", "12"}

Tasks == {"setup", "poller", "service"}

NoEv == "-"
NoPin == "-"

VARIABLES
    cfg,         \* CONF_CODE of the platform configuration
    code,        \* AlarmDotCom._code
    login_info,  \* Alarmdotcom._login_info: None, or the scraped session key
    state,       \* Alarmdotcom.state: None, or the text of the state element
    stack,       \* per task: the suspended coroutine frames, innermost last
    reqs,        \* the requests of the current operation, with their answers
    done,        \* the coroutines that finished in the last step, in order
    last,        \* the last step: its task, and the request answered and
                 \* the answer (m "call" when the step started an operation)
    phase        \* the entity: "new", "setup", "added" or "failed"

\* The JSON-API client (pyalarmdotcom/pyalarmdotcomwebapi.py, class
\* Alarmdotcom), an object of its own.
VARIABLES
    api_logged_in,   \* Alarmdotcom.logged_in: False, None or True
    api_panel_id,    \* Alarmdotcom.panel_id: None, or the partition id
    api_state,       \* Alarmdotcom.state: "" or a lower-case state name
    sensor_status,   \* Alarmdotcom.sensor_status: None, or the summary
    api_op           \* the last operation on the JSON-API client: what was
                     \* called, how it ended, whether an API request of it
                     \* failed, and the sensor list its poll was answered

formvars == <<cfg, code, login_info, state, stack, reqs, done, last, phase>>
apivars == <<api_logged_in, api_panel_id, api_state, sensor_status, api_op>>
vars == <<cfg, code, login_info, state, stack, reqs, done, last, phase,
          api_logged_in, api_panel_id, api_state, sensor_status, api_op>>

\* pyalarmdotcomwebapi.Alarmdotcom.__init__
ApiInit ==
    /\ api_logged_in = False
    /\ api_panel_id = None
    /\ api_state = ""
    /\ sensor_status = None
    /\ api_op = [op |-> "-", ev |-> "-", k |-> "-", v |-> "-",
                 failed |-> FALSE, sensors |-> <<>>]

-----------------------------------------------------------------------------
\* str() of a non-negative integer.
Digit == <<"0", "1", "2", "3", "4", "5", "6", "7", "8", "9">>

RECURSIVE Str(_)
Str(n) == IF n < 10 THEN Digit[n + 1] ELSE Str(n \div 10) \o Digit[(n % 10) + 1]

\* AlarmDotCom.__init__: self._code = str(code) if code else None
InitCode(c) == IF c.has /\ c.val # 0 THEN Str(c.val) ELSE None

\* AlarmDotCom._validate_code
validate_code(pin) == code = None \/ pin = code

-----------------------------------------------------------------------------
\* Portal answers.  "reqfail": the request raised asyncio.TimeoutError or
\* aiohttp ClientError before a response was bound; "bodyfail": reading the
\* body (response.text()) raised a ClientError.
R(tag) == [tag |-> tag, val |-> "-"]
Pending == R("pending")
NetErr == {"reqfail", "bodyfail"}

\* The login page: no session key in the URL, a hidden field missing, or
\* the page with a session key and all hidden fields.
LoginPageResponses ==
    {R("reqfail"), R("bodyfail"), R("nokey"), R("notoken")}
        \cup {[tag |-> "page", val |-> k] : k \in SessionKeys}

\* The answer to the credential POST: a page with the alarm-state element,
\* or one without it and: the error control whose value holds the
\* bad-credentials message, the error control with another value, the
\* error control without a value attribute, no error control.
LoginPostResponses ==
    {R("reqfail"), R("bodyfail"), R("badcreds"), R("errother"),
     R("errnovalue"), R("noelem")}
        \cup {[tag |-> "state", val |-> s] : s \in AlarmTexts}

\* The status page: with the alarm-state element or without it.
StatusResponses ==
    {R("reqfail"), R("bodyfail"), R("nostate")}
        \cup {[tag |-> "state", val |-> s] : s \in AlarmTexts}

\* The answer to a command POST: the message element with a text that
\* contains 'command', with another text, or no message element.
CommandResponses ==
    {R("reqfail"), R("bodyfail"), R("msgcmd"), R("msgother"), R("nomsg")}

-----------------------------------------------------------------------------
\* Configurations of one task while a step runs:
\*   stk, li, st, reqs, done as the variables; t the task; ctl what the
\*   innermost frame is handed: nothing (it waits for the portal), a
\*   return value or an exception of the coroutine it called.
Wait == [k |-> "wait", v |-> "-"]

Top(s) == s[Len(s)]
Pop(s) == SubSeq(s, 1, Len(s) - 1)

Frame(fn, pc, ev, pin, c) ==
    [fn |-> fn, pc |-> pc, ev |-> ev, pin |-> pin, live |-> c.li # None]

Push(c, f) == [c EXCEPT !.stk = Append(@, f)]

SetPc(c, pc) == [c EXCEPT !.stk[Len(c.stk)].pc = pc]

Request(c, m, ev, sk) ==
    [c EXCEPT !.reqs = Append(@, [t |-> c.t, m |-> m, ev |-> ev,
                                  sk |-> sk, r |-> Pending]),
              !.ctl = Wait]

Finish(c, k, v) ==
    LET f == Top(c.stk)
    IN  [c EXCEPT !.stk = Pop(@),
                  !.done = Append(@, [fn |-> f.fn, ev |-> f.ev, pin |-> f.pin,
                                      live |-> f.live, k |-> k, v |-> v]),
                  !.ctl = [k |-> k, v |-> v]]

Return(c, v) == Finish(c, "ret", v)
Raise(c, e) == Finish(c, "exc", e)

-----------------------------------------------------------------------------
\* Alarmdotcom.async_login, up to the GET of the login page.
async_login(c) ==
    Request(Push(c, Frame("async_login", "get", NoEv, NoPin, c)),
            "GET_login", NoEv, None)

\* A variant of LoginOnPage that tries the login page again when the GET
\* fails.
LoginOnPage_RetriesGet(c, r) ==
    CASE r.tag \in NetErr  -> Request(c, "GET_login", NoEv, None)
      [] r.tag = "nokey"   -> Raise(c, "AttributeError")
      [] r.tag = "notoken" -> Raise(c, "IndexError")
      [] r.tag = "page"    ->
            Request(SetPc([c EXCEPT !.li = r.val], "post"),
                    "POST_login", NoEv, r.val)

\* A variant of LoginOnPage that reports a page without the session key or
\* without a hidden field as a failed login instead of raising.
LoginOnPage_SwallowsMissing(c, r) ==
    CASE r.tag \in NetErr \cup {"nokey", "notoken"} -> Return(c, False)
      [] r.tag = "page"    ->
            Request(SetPc([c EXCEPT !.li = r.val], "post"),
                    "POST_login", NoEv, r.val)

\* Alarmdotcom.async_login, from the answer to the GET up to the credential
\* POST.  _login_info is assigned as soon as the page is parsed.
LoginOnPage(c, r) ==
    CASE r.tag \in NetErr  -> Return(c, False)
      [] r.tag = "nokey"   -> Raise(c, "AttributeError")
      [] r.tag = "notoken" -> Raise(c, "IndexError")
      [] r.tag = "page"    ->
            Request(SetPc([c EXCEPT !.li = r.val], "post"),
                    "POST_login", NoEv, r.val)

\* Alarmdotcom.async_login, from the answer to the credential POST on.
LoginOnPost(c, r) ==
    CASE r.tag \in NetErr     -> Return(c, False)
      [] r.tag = "state"      -> Return([c EXCEPT !.st = r.val], None)
      [] r.tag = "badcreds"   -> Return(c, False)
      [] r.tag = "errother"   -> Return(c, None)
      [] r.tag = "errnovalue" -> Raise(c, "TypeError")
      [] r.tag = "noelem"     -> Raise(c, "IndexError")

\* Alarmdotcom.async_update, from the return of the login it awaited up to
\* the status GET: the URL is built from _login_info['sessionkey'].
UpdateAfterLogin(c) ==
    IF c.li = None
    THEN Raise(c, "TypeError")
    ELSE Request(SetPc(c, "get"), "GET_status", NoEv, c.li)

\* Alarmdotcom.async_update, up to its first request.
async_update(c) ==
    IF c.li = None
    THEN async_login(Push(c, Frame("async_update", "login", NoEv, NoPin, c)))
    ELSE Request(Push(c, Frame("async_update", "get", NoEv, NoPin, c)),
                 "GET_status", NoEv, c.li)

\* A variant of UpdateOnStatus that takes a failed status request for a lost
\* session: it clears the cache and the session and polls again.
UpdateOnStatus_RetryOnFailure(c, r) ==
    CASE r.tag = "state" -> Return([c EXCEPT !.st = r.val], None)
      [] OTHER ->
            async_update(SetPc([c EXCEPT !.st = None, !.li = None], "rec"))

\* A variant of UpdateOnStatus that drops the session but keeps the cached
\* state when the state element is missing.
UpdateOnStatus_KeepsCache(c, r) ==
    CASE r.tag \in NetErr  -> Return(c, False)
      [] r.tag = "state"   -> Return([c EXCEPT !.st = r.val], None)
      [] r.tag = "nostate" ->
            async_update(SetPc([c EXCEPT !.li = None], "rec"))

\* Alarmdotcom.async_update, from the answer to the status GET on.  Without
\* the state element the cache and the session are cleared and the
\* coroutine calls itself.
UpdateOnStatus(c, r) ==
    CASE r.tag \in NetErr  -> Return(c, False)
      [] r.tag = "state"   -> Return([c EXCEPT !.st = r.val], None)
      [] r.tag = "nostate" ->
            async_update(SetPc([c EXCEPT !.st = None, !.li = None], "rec"))

\* Alarmdotcom.async_update, when the coroutine it awaited ends.
UpdateResume(c) ==
    LET f == Top(c.stk)
    IN  IF c.ctl.k = "exc" THEN Raise(c, c.ctl.v)
        ELSE IF f.pc = "login" THEN UpdateAfterLogin(c)
        ELSE Return(c, None)

\* Alarmdotcom._send, up to the command POST.  Nothing logs in here: with
\* _login_info None the subscript raises TypeError inside the try, and the
\* finally clause then reads the unbound local `response`.
_send(c, event) ==
    LET c1 == Push(c, Frame("_send", "post", event, NoPin, c))
    IN  IF c.li = None
        THEN Raise(c1, "UnboundLocalError")
        ELSE Request(c1, "POST_cmd", event, c.li)

\* Alarmdotcom.async_alarm_disarm / async_alarm_arm_home / async_alarm_arm_away
async_alarm_disarm(c) == _send(c, "Disarm")
async_alarm_arm_home(c) == _send(c, "Arm+Stay")
async_alarm_arm_away(c) == _send(c, "Arm+Away")

\* A variant of SendRetry whose Disarm branch calls the arm-away coroutine,
\* as its Arm+Stay branch does.
SendRetry_ArmsOnDisarm(c, event) ==
    IF event = "Disarm" THEN async_alarm_arm_away(c)
    ELSE IF event = "Arm+Stay" THEN async_alarm_arm_away(c)
    ELSE async_alarm_arm_away(c)

\* Alarmdotcom._send, the retry after the re-login.
SendRetry(c, event) ==
    IF event = "Disarm" THEN async_alarm_disarm(c)
    ELSE IF event = "Arm+Stay" THEN async_alarm_arm_away(c)
    ELSE async_alarm_arm_away(c)

\* A variant of SendOnAnswer that refreshes the status whatever the message
\* says.
SendOnAnswer_AlwaysRefreshes(c, r) ==
    CASE r.tag = "reqfail"  -> Raise(c, "UnboundLocalError")
      [] r.tag = "bodyfail" -> Return(c, None)
      [] r.tag = "msgcmd"   -> async_update(SetPc(c, "upd"))
      [] r.tag = "msgother" -> async_update(SetPc(c, "upd"))
      [] r.tag = "nomsg"    -> async_login(SetPc(c, "relogin"))

\* Alarmdotcom._send, from the answer to the command POST on.
SendOnAnswer(c, r) ==
    CASE r.tag = "reqfail"  -> Raise(c, "UnboundLocalError")
      [] r.tag = "bodyfail" -> Return(c, None)
      [] r.tag = "msgcmd"   -> async_update(SetPc(c, "upd"))
      [] r.tag = "msgother" -> Return(c, None)
      [] r.tag = "nomsg"    -> async_login(SetPc(c, "relogin"))

\* Alarmdotcom._send, when the coroutine it awaited ends.  The status
\* refresh is awaited inside `try ... except IndexError`.
SendResume(c) ==
    LET f == Top(c.stk)
    IN  CASE f.pc = "upd" ->
                IF c.ctl.k = "ret" THEN Return(c, None)
                ELSE IF c.ctl.v = "IndexError"
                     THEN async_login(SetPc(c, "relogin"))
                     ELSE Raise(c, c.ctl.v)
          [] f.pc = "relogin" ->
                IF c.ctl.k = "ret" THEN SendRetry(SetPc(c, "retry"), f.ev)
                ELSE Raise(c, c.ctl.v)
          [] f.pc = "retry" ->
                IF c.ctl.k = "ret" THEN Return(c, None)
                ELSE Raise(c, c.ctl.v)

-----------------------------------------------------------------------------
\* The host adapter, class AlarmDotCom.
PanelCommands ==
    {"Panel.async_alarm_disarm", "Panel.async_alarm_arm_home",
     "Panel.async_alarm_arm_away"}

\* AlarmDotCom.async_login
Panel_async_login(c) ==
    async_login(Push(c, Frame("Panel.async_login", "call", NoEv, NoPin, c)))

\* AlarmDotCom.async_update, up to the first request.
Panel_async_update(c) ==
    async_update(Push(c, Frame("Panel.async_update", "call", NoEv, NoPin, c)))

\* AlarmDotCom.async_alarm_disarm
Panel_async_alarm_disarm(c, pin) ==
    LET c1 == Push(c, Frame("Panel.async_alarm_disarm", "call", "Disarm", pin, c))
    IN  IF validate_code(pin) THEN async_alarm_disarm(c1) ELSE Return(c1, None)

\* AlarmDotCom.async_alarm_arm_home
Panel_async_alarm_arm_home(c, pin) ==
    LET c1 == Push(c, Frame("Panel.async_alarm_arm_home", "call", "Arm+Stay", pin, c))
    IN  IF validate_code(pin) THEN async_alarm_arm_home(c1) ELSE Return(c1, None)

\* AlarmDotCom.async_alarm_arm_away
Panel_async_alarm_arm_away(c, pin) ==
    LET c1 == Push(c, Frame("Panel.async_alarm_arm_away", "call", "Arm+Away", pin, c))
    IN  IF validate_code(pin) THEN async_alarm_arm_away(c1) ELSE Return(c1, None)

\* str.lower() on the texts of the state element.
Lower(s) ==
    CASE s = "Disarmed"   -> "disarmed"
      [] s = "Armed Stay" -> "armed stay"
      [] s = "Armed Away" -> "armed away"

\* homeassistant.const, as imported by the adapter.
STATE_ALARM_DISARMED == "disarmed"
STATE_ALARM_ARMED_HOME == "armed_home"
STATE_ALARM_ARMED_AWAY == "armed_away"

\* AlarmDotCom.state (property): what reading it yields for the core's
\* cached state st.  None has no lower().
Panel_state(st) ==
    IF st = None THEN [k |-> "exc", v |-> "AttributeError"]
    ELSE IF Lower(st) = "disarmed" THEN [k |-> "ret", v |-> STATE_ALARM_DISARMED]
    ELSE IF Lower(st) = "armed stay" THEN [k |-> "ret", v |-> STATE_ALARM_ARMED_HOME]
    ELSE IF Lower(st) = "armed away" THEN [k |-> "ret", v |-> STATE_ALARM_ARMED_AWAY]
    ELSE [k |-> "ret", v |-> None]

\* The adapter's coroutines, when the core coroutine they awaited ends:
\* async_update returns the core's cached state, the others None.
PanelResume(c) ==
    LET f == Top(c.stk)
    IN  IF c.ctl.k = "exc" THEN Raise(c, c.ctl.v)
        ELSE IF f.fn = "Panel.async_update" THEN Return(c, c.st)
        ELSE Return(c, None)

-----------------------------------------------------------------------------
\* Deliver the return value or exception to the innermost frame.
Resume(c) ==
    LET f == Top(c.stk)
    IN  CASE f.fn = "async_update" -> UpdateResume(c)
          [] f.fn = "_send"        -> SendResume(c)
          [] OTHER                 -> PanelResume(c)

\* Run the task until it waits for the portal or has ended.
RECURSIVE Run(_)
Run(c) == IF c.ctl.k = "wait" \/ c.stk = <<>> THEN c ELSE Run(Resume(c))

-----------------------------------------------------------------------------
\* The state after async_setup_platform has constructed the entity:
\* AlarmDotCom.__init__ and Alarmdotcom.__init__.
Init ==
    /\ cfg \in ConfigCodes
    /\ code = InitCode(cfg)
    /\ login_info = None
    /\ state = None
    /\ stack = [t \in Tasks |-> <<>>]
    /\ reqs = <<>>
    /\ done = <<>>
    /\ last = [t |-> "-", m |-> "-", r |-> R("-")]
    /\ phase = "new"
    /\ ApiInit

\* The adapter's callers are taken to start one operation at a time; the
\* adapter itself holds no lock.
Idle == \A t \in Tasks : stack[t] = <<>>

\* The configuration in which task t starts an operation.
\* The requests of the operations still running are kept.
Begin(t) ==
    [stk |-> <<>>, li |-> login_info, st |-> state,
     reqs |-> SelectSeq(reqs, LAMBDA q : stack[q.t] # <<>>),
     done |-> <<>>, ctl |-> Wait, t |-> t,
     last |-> [t |-> t, m |-> "call", r |-> R("-")]]

\* The request task t waits on, and the configuration in which the portal
\* answers it with r.
PendingReq(t) ==
    CHOOSE i \in DOMAIN reqs :
        /\ reqs[i].t = t
        /\ reqs[i].r = Pending

Answered(t, r) ==
    [stk |-> stack[t], li |-> login_info, st |-> state,
     reqs |-> [reqs EXCEPT ![PendingReq(t)].r = r],
     done |-> <<>>, ctl |-> Wait, t |-> t,
     last |-> [t |-> t, m |-> reqs[PendingReq(t)].m, r |-> r]]

\* async_setup_platform adds the entity unless the login raises.
NextPhase(c) ==
    IF c.t # "setup" THEN phase
    ELSE IF c.stk # <<>> THEN "setup"
    ELSE IF c.ctl.k = "exc" THEN "failed"
    ELSE "added"

\* The step ends in configuration c.
Commit(c) ==
    /\ Len(c.reqs) <= MaxReqs
    /\ stack' = [stack EXCEPT ![c.t] = c.stk]
    /\ login_info' = c.li
    /\ state' = c.st
    /\ reqs' = c.reqs
    /\ done' = c.done
    /\ last' = c.last
    /\ phase' = NextPhase(c)
    /\ UNCHANGED <<cfg, code>>
    /\ UNCHANGED apivars

Waiting(t, fn, pc) ==
    /\ stack[t] # <<>>
    /\ Top(stack[t]).fn = fn
    /\ Top(stack[t]).pc = pc

\* async_setup_platform: await alarmdotcom.async_login()
Setup ==
    /\ phase = "new"
    /\ Commit(Run(Panel_async_login(Begin("setup"))))

\* The platform's periodic update of the entity.
PlatformUpdate ==
    /\ phase = "added"
    /\ Idle
    /\ Commit(Run(Panel_async_update(Begin("poller"))))

\* The alarm_disarm service call.
ServiceDisarm ==
    /\ phase = "added"
    /\ Idle
    /\ \E pin \in Pins :
          Commit(Run(Panel_async_alarm_disarm(Begin("service"), pin)))

\* The alarm_arm_home service call.
ServiceArmHome ==
    /\ phase = "added"
    /\ Idle
    /\ \E pin \in Pins :
          Commit(Run(Panel_async_alarm_arm_home(Begin("service"), pin)))

\* The alarm_arm_away service call.
ServiceArmAway ==
    /\ phase = "added"
    /\ Idle
    /\ \E pin \in Pins :
          Commit(Run(Panel_async_alarm_arm_away(Begin("service"), pin)))

\* The portal answers the GET of the login page.
LoginPageAnswer ==
    \E t \in Tasks :
        /\ Waiting(t, "async_login", "get")
        /\ \E r \in LoginPageResponses :
              Commit(Run(LoginOnPage(Answered(t, r), r)))

\* The portal answers the credential POST.
LoginPostAnswer ==
    \E t \in Tasks :
        /\ Waiting(t, "async_login", "post")
        /\ \E r \in LoginPostResponses :
              Commit(Run(LoginOnPost(Answered(t, r), r)))

\* The portal answers the status GET.
StatusAnswer ==
    \E t \in Tasks :
        /\ Waiting(t, "async_update", "get")
        /\ \E r \in StatusResponses :
              Commit(Run(UpdateOnStatus(Answered(t, r), r)))

\* The portal answers a command POST.
CommandAnswer ==
    \E t \in Tasks :
        /\ Waiting(t, "_send", "post")
        /\ \E r \in CommandResponses :
              Commit(Run(SendOnAnswer(Answered(t, r), r)))

Next ==
    \/ Setup
    \/ PlatformUpdate
    \/ ServiceDisarm
    \/ ServiceArmHome
    \/ ServiceArmAway
    \/ LoginPageAnswer
    \/ LoginPostAnswer
    \/ StatusAnswer
    \/ CommandAnswer

Spec == Init /\ [][Next]_vars

-----------------------------------------------------------------------------
\* What the properties below read off a state.

Last(s) == s[Len(s)]

\* Task t runs an operation, or its operation ended in the last step.
HasOp(t) == stack[t] # <<>> \/ (last.t = t /\ done # <<>>)

\* The outermost coroutine of that operation: fn, ev, pin, live.
OpRoot(t) == IF stack[t] # <<>> THEN stack[t][1] ELSE Last(done)

\* The requests the operation of task t has issued so far.
TaskReqs(t) == SelectSeq(reqs, LAMBDA q : q.t = t)

IsDispatch(t) == HasOp(t) /\ OpRoot(t).fn \in PanelCommands
IsPoll(t) == HasOp(t) /\ OpRoot(t).fn = "Panel.async_update"

CountOf(s, m) == Cardinality({i \in DOMAIN s : s[i].m = m})

\* A re-login: a GET of the login page that follows a status page without
\* the state element, or a command answer without the message element.
ReLogins(s) ==
    Cardinality({i \in DOMAIN s :
        /\ i > 1
        /\ s[i].m = "GET_login"
        /\ s[i - 1].r.tag \in {"nostate", "nomsg"}})

-----------------------------------------------------------------------------
\* C1: every command POST issued during one dispatch of command c carries
\* c; in particular the command re-submitted after a re-login is the
\* command that was requested.
C1_RetryCarriesRequestedCommand ==
    \A t \in Tasks :
        IsDispatch(t) =>
            \A i \in DOMAIN TaskReqs(t) :
                TaskReqs(t)[i].m = "POST_cmd"
                    => TaskReqs(t)[i].ev = OpRoot(t).ev

\* C2: one dispatch issues at most one re-login and at most two command
\* POSTs, whatever the portal answers.
C2_DispatchRetriesAtMostOnce ==
    \A t \in Tasks :
        IsDispatch(t) =>
            /\ CountOf(TaskReqs(t), "POST_cmd") <= 2
            /\ ReLogins(TaskReqs(t)) <= 1

\* C3: one status poll performs at most one re-login, also when every
\* later status page lacks the state element too.
C3_PollReLoginsAtMostOnce ==
    \A t \in Tasks :
        IsPoll(t) => ReLogins(TaskReqs(t)) <= 1

\* C4: a dispatch that passes the PIN check while the client holds no
\* session tokens logs in before anything else: its first request is the
\* GET of the login page.
C4_DispatchLogsInFirst ==
    \A t \in Tasks :
        (IsDispatch(t) /\ ~OpRoot(t).live /\ validate_code(OpRoot(t).pin)) =>
            /\ TaskReqs(t) # <<>>
            /\ TaskReqs(t)[1].m = "GET_login"

\* C5: when the command POST of a dispatch times out or fails with a
\* client error, the dispatch ends there by returning: no exception
\* escapes it and no further request is issued.
C5_DispatchFailureReturns ==
    \A t \in Tasks :
        (IsDispatch(t) /\ last.t = t /\ last.m = "POST_cmd"
            /\ last.r.tag \in NetErr) =>
            /\ stack[t] = <<>>
            /\ \A i \in DOMAIN done : done[i].k = "ret"
            /\ Last(TaskReqs(t)).r.tag \in NetErr

\* C6: when the status request of a poll that was entered with a live
\* session times out or fails with a client error, that poll returns False
\* without raising, no further request is issued, and the cached alarm
\* state and the session tokens keep their values.
C6_PollFailureReturnsFalse ==
    [][\A t \in Tasks :
          (/\ Waiting(t, "async_update", "get")
           /\ Top(stack[t]).live
           /\ last'.t = t
           /\ last'.m = "GET_status"
           /\ last'.r.tag \in NetErr)
          => /\ done' # <<>>
             /\ done'[1].fn = "async_update"
             /\ done'[1].k = "ret"
             /\ done'[1].v = False
             /\ \A i \in DOMAIN done' : done'[i].k = "ret"
             /\ Len(reqs') = Len(reqs)
             /\ state' = state
             /\ login_info' = login_info]_vars

\* C6 (witness): a poll entered with a live session and a cached state
\* has just returned False on a failed status request.
C6_Witness ==
    /\ last.m = "GET_status"
    /\ last.r.tag \in NetErr
    /\ done # <<>>
    /\ done[1].fn = "async_update"
    /\ done[1].live
    /\ done[1].v = False
    /\ state # None

\* C7: when the login a logged-out poll performs fails with a network or
\* timeout error, the poll returns a falsy value: no exception escapes it.
C7_PollLoginFailureIsFalsy ==
    \A i \in DOMAIN done :
        (/\ i < Len(done)
         /\ done[i].fn = "async_login"
         /\ last.m \in {"GET_login", "POST_login"}
         /\ last.r.tag \in NetErr
         /\ done[i + 1].fn = "async_update") =>
            /\ done[i + 1].k = "ret"
            /\ done[i + 1].v \in {False, None}

\* C8: a login whose page carries the hidden tokens and whose credentials
\* are accepted returns True, and a status poll that reads the state
\* element returns that state text to its caller.
C8_LoginTrueThenPollReturnsState ==
    \A i \in DOMAIN done :
        /\ (done[i].fn = "async_login" /\ last.m = "POST_login"
                /\ last.r.tag = "state")
            => (done[i].k = "ret" /\ done[i].v = True)
        /\ (done[i].fn = "async_update" /\ i = 1 /\ last.m = "GET_status"
                /\ last.r.tag = "state")
            => (done[i].k = "ret" /\ done[i].v \in AlarmTexts)

\* C9: a login answered with the bad-credentials error panel returns False
\* and leaves no session tokens stored.
C9_BadCredentialsKeepNoTokens ==
    \A i \in DOMAIN done :
        (done[i].fn = "async_login" /\ last.m = "POST_login"
            /\ last.r.tag = "badcreds") =>
            /\ done[i].k = "ret"
            /\ done[i].v = False
            /\ login_info = None

\* C10: with a code configured, a disarm, arm-home or arm-away whose PIN
\* differs from it (no PIN included) is rejected: the core client is not
\* called and no request is issued.
C10_WrongPinIsRejected ==
    \A t \in Tasks :
        (IsDispatch(t) /\ cfg.has /\ OpRoot(t).pin # Str(cfg.val)) =>
            /\ stack[t] = <<>>
            /\ Len(done) = 1
            /\ TaskReqs(t) = <<>>

\* With a code stored in the adapter (CONF_CODE not 0), a PIN that differs
\* from it never reaches the core client.
StoredCodeRejectsWrongPin ==
    \A t \in Tasks :
        (IsDispatch(t) /\ code # None /\ OpRoot(t).pin # code) =>
            /\ stack[t] = <<>>
            /\ Len(done) = 1
            /\ TaskReqs(t) = <<>>

-----------------------------------------------------------------------------
\* C11: a dispatch of Disarm submits only Disarm, over all the retries it
\* makes and whatever the cached alarm state is.
C11_DisarmSubmitsOnlyDisarm ==
    \A t \in Tasks :
        (IsDispatch(t) /\ OpRoot(t).ev = "Disarm") =>
            {TaskReqs(t)[i].ev :
                i \in {j \in DOMAIN TaskReqs(t) : TaskReqs(t)[j].m = "POST_cmd"}}
                    \subseteq {"Disarm"}

\* C11 (witness): a Disarm dispatched while the cache reads Disarmed has
\* been re-submitted after a re-login.
C11_Witness ==
    \E t \in Tasks :
        /\ IsDispatch(t)
        /\ OpRoot(t).ev = "Disarm"
        /\ CountOf(TaskReqs(t), "POST_cmd") >= 2
        /\ state = "Disarmed"

LoginReqs == {"GET_login", "POST_login"}

\* C12: a login whose GET or POST times out or fails with a client error
\* returns False without raising, and does not try again: the request that
\* failed is the last one of that login, and every credential POST follows
\* the one GET of its login.
C12_LoginFailureReturnsFalseOnce ==
    /\ (last.m \in LoginReqs /\ last.r.tag \in NetErr) =>
          /\ done # <<>>
          /\ done[1].fn = "async_login"
          /\ done[1].k = "ret"
          /\ done[1].v = False
    /\ \A t \in Tasks : \A i \in DOMAIN TaskReqs(t) :
          LET s == TaskReqs(t)
          IN  /\ (s[i].m \in LoginReqs /\ s[i].r.tag \in NetErr /\ i < Len(s))
                    => s[i + 1].m \notin LoginReqs
              /\ s[i].m = "POST_login"
                    => (i > 1 /\ s[i - 1].m = "GET_login"
                              /\ s[i - 1].r.tag = "page")

\* C12 (witness): the credential POST of a login has just failed.
C12_Witness ==
    /\ last.m = "POST_login"
    /\ last.r.tag \in NetErr
    /\ done # <<>>
    /\ done[1].fn = "async_login"
    /\ done[1].v = False

\* C13: when the login page has no session key in its URL or lacks a hidden
\* field, the login raises to its caller and posts no credentials.
C13_MissingElementsRaise ==
    /\ (last.m = "GET_login" /\ last.r.tag \in {"nokey", "notoken"}) =>
          /\ done # <<>>
          /\ done[1].fn = "async_login"
          /\ done[1].k = "exc"
          /\ done[1].v = IF last.r.tag = "nokey" THEN "AttributeError"
                                                 ELSE "IndexError"
    /\ \A t \in Tasks : \A i \in DOMAIN TaskReqs(t) :
          LET s == TaskReqs(t)
          IN  (s[i].m = "GET_login" /\ s[i].r.tag \in {"nokey", "notoken"}
                  /\ i < Len(s))
                    => s[i + 1].m # "POST_login"

\* C13 (witness): a login has just raised on a page without a hidden field.
C13_Witness ==
    /\ last.m = "GET_login"
    /\ last.r.tag = "notoken"
    /\ done # <<>>
    /\ done[1].fn = "async_login"
    /\ done[1].k = "exc"

-----------------------------------------------------------------------------
\* The adapter under Home Assistant's scheduling: the periodic update and the
\* service calls are separate tasks on the event loop and the adapter takes
\* no lock (alarm_control_panel.py sets no PARALLEL_UPDATES and its
\* coroutines await the core directly), so an operation may start while
\* the other task's operation is suspended on a request.

\* The platform's periodic update, started while the previous update is
\* over.
ConcPlatformUpdate ==
    /\ phase = "added"
    /\ stack["poller"] = <<>>
    /\ Commit(Run(Panel_async_update(Begin("poller"))))

\* The alarm_disarm service call, started while the previous call is over.
ConcServiceDisarm ==
    /\ phase = "added"
    /\ stack["service"] = <<>>
    /\ \E pin \in Pins :
          Commit(Run(Panel_async_alarm_disarm(Begin("service"), pin)))

\* The alarm_arm_home service call, started while the previous call is over.
ConcServiceArmHome ==
    /\ phase = "added"
    /\ stack["service"] = <<>>
    /\ \E pin \in Pins :
          Commit(Run(Panel_async_alarm_arm_home(Begin("service"), pin)))

\* The alarm_arm_away service call, started while the previous call is over.
ConcServiceArmAway ==
    /\ phase = "added"
    /\ stack["service"] = <<>>
    /\ \E pin \in Pins :
          Commit(Run(Panel_async_alarm_arm_away(Begin("service"), pin)))

\* The longest request log followed when two operations overlap.
MaxConcReqs == 4

ConcBound == Len(reqs') <= MaxConcReqs

NextConc ==
    \/ Setup /\ ConcBound
    \/ ConcPlatformUpdate /\ ConcBound
    \/ ConcServiceDisarm /\ ConcBound
    \/ ConcServiceArmHome /\ ConcBound
    \/ ConcServiceArmAway /\ ConcBound
    \/ LoginPageAnswer /\ ConcBound
    \/ LoginPostAnswer /\ ConcBound
    \/ StatusAnswer /\ ConcBound
    \/ CommandAnswer /\ ConcBound

SpecConc == Init /\ [][NextConc]_vars

\* The tasks suspended on a request.
Suspended == {t \in Tasks : \E i \in DOMAIN reqs : reqs[i].t = t /\ reqs[i].r = Pending}

\* C19: with the periodic update and the service calls scheduled
\* concurrently, at most one task of the adapter is suspended on a request
\* of its client at any time.
C19_OneOutstandingRequest == Cardinality(Suspended) <= 1

-----------------------------------------------------------------------------
C17_SessionLossClearsSession ==
    /\ last.r.tag \in {"nostate", "nomsg"} =>
          (login_info = None /\ state = None)
    /\ \A t \in Tasks :
          LET s == TaskReqs(t)
          IN  (/\ Len(s) >= 2
               /\ last.t = t
               /\ Last(s).m = "GET_login"
               /\ Last(s).r.tag \in NetErr
               /\ s[Len(s) - 1].r.tag \in {"nostate", "nomsg"})
                    => login_info = None

\* C18: once the entity is added, reading the adapter's state yields
\* disarmed, armed_home or armed_away for the three state texts and None when
\* the core's cached state is unknown; the read never fails.
C18_StateReadNeverFails ==
    phase = "added" =>
        /\ Panel_state(state).k = "ret"
        /\ Panel_state(state).v =
              CASE state = "Disarmed"   -> "disarmed"
                [] state = "Armed Stay" -> "armed_home"
                [] state = "Armed Away" -> "armed_away"
                [] OTHER                -> None

\* C20: a dispatch answered with the message element but no command
\* confirmation is a no-op on the client: that _send returns, no request
\* is added, and the cached state and the session tokens are unchanged.
C20_UnconfirmedCommandIsNoOp ==
    [][\A t \in Tasks :
          (/\ Waiting(t, "_send", "post")
           /\ last'.t = t
           /\ last'.m = "POST_cmd"
           /\ last'.r.tag = "msgother")
          => /\ done' # <<>>
             /\ done'[1].fn = "_send"
             /\ done'[1].k = "ret"
             /\ Len(reqs') = Len(reqs)
             /\ \A i \in DOMAIN reqs' : reqs'[i].r # Pending
             /\ state' = state
             /\ login_info' = login_info]_vars

\* C20 (witness): a dispatch has ended on an unconfirmed command while a
\* state was cached.
C20_Witness ==
    /\ last.m = "POST_cmd"
    /\ last.r.tag = "msgother"
    /\ done # <<>>
    /\ done[1].fn = "_send"
    /\ state # None

-----------------------------------------------------------------------------
\* The JSON-API client.  Its coroutines never yield to the event loop (the
\* browser calls are synchronous), so each operation is one step.  The
\* portal is the environment: every browser request of the operation
\* either fails (a network error, or for an API request a body that is not
\* JSON) or is answered with the document the endpoint serves.

\* The longest sensor list the portal answers with.
MaxSensors == 2

\* The sensors of the system: description and stateText.
SensorSet ==
    {[description |-> "Door", stateText |-> "Closed"],
     [description |-> "Window", stateText |-> "Open"]}

RECURSIVE SeqsUpTo(_, _)
SeqsUpTo(S, n) ==
    IF n = 0 THEN {<<>>}
    ELSE SeqsUpTo(S, n - 1) \cup
         {Append(s, x) : s \in {q \in SeqsUpTo(S, n - 1) : Len(q) = n - 1}, x \in S}

\* What an API request yields: ok FALSE when api_call's try block fails,
\* else the value the caller reads out of the decoded document.
ItemsResults == {[ok |-> FALSE, val |-> "-"], [ok |-> TRUE, val |-> "u1"]}
SystemResults == {[ok |-> FALSE, val |-> "-"], [ok |-> TRUE, val |-> "p1"]}
PartitionResults ==
    {[ok |-> FALSE, val |-> 0]} \cup {[ok |-> TRUE, val |-> i] : i \in 0..3}
SensorResults ==
    {[ok |-> FALSE, val |-> <<>>]} \cup
    {[ok |-> TRUE, val |-> s] : s \in SeqsUpTo(SensorSet, MaxSensors)}

\* states in command(), indexed from 0.
states == <<"", "disarmed", "armed stay", "armed away">>

\* str.upper() on the events and on 'STATUS'.
Upper(s) ==
    CASE s = "Disarm"   -> "DISARM"
      [] s = "Arm+Stay" -> "ARM+STAY"
      [] s = "Arm+Away" -> "ARM+AWAY"
      [] s = "STATUS"   -> "STATUS"

\* The client at the start of an operation.
ApiBegin(op, ev) ==
    [li |-> api_logged_in, pid |-> api_panel_id, st |-> api_state,
     ss |-> sensor_status, k |-> "run", v |-> "-",
     op |-> op, ev |-> ev, failed |-> FALSE, sensors |-> <<>>]

ApiReturn(a, v) == [a EXCEPT !.k = "ret", !.v = v]
ApiRaise(a, e) == [a EXCEPT !.k = "exc", !.v = e]

\* Alarmdotcom.api_call with the request's outcome r: the result is None
\* when r.ok is FALSE.  self._login is defined nowhere.
api_call(a, r) ==
    IF a.li # True THEN ApiRaise(a, "AttributeError")
    ELSE [a EXCEPT !.failed = @ \/ ~r.ok]

\* Alarmdotcom._get_panel
_get_panel(a, items, system) ==
    IF a.pid # None THEN a
    ELSE LET a1 == api_call(a, items)
         IN  IF a1.k = "exc" THEN a1
             ELSE IF ~items.ok THEN ApiRaise(a1, "TypeError")
             ELSE LET a2 == api_call(a1, system)
                  IN  IF a2.k = "exc" THEN a2
                      ELSE IF ~system.ok THEN ApiRaise(a2, "TypeError")
                      ELSE [a2 EXCEPT !.pid = system.val]

\* Alarmdotcom.async_login of the JSON-API client
Api_async_login(a, env) ==
    IF ~env.open THEN ApiRaise(a, "BrowserError")
    ELSE LET a1 == [a EXCEPT !.li = None]
         IN  IF ~env.post THEN ApiReturn(a1, a1.li)
             ELSE LET a2 == _get_panel([a1 EXCEPT !.li = True],
                                      env.login_items, env.login_system)
                  IN  ApiReturn(a2, a2.li)

\* The loop of command() over the sensors of the response.
RECURSIVE SensorLoop(_, _)
SensorLoop(ss, sensors) ==
    IF sensors = <<>> THEN ss
    ELSE SensorLoop((IF ss # "" THEN ss \o ", " ELSE ss)
                        \o Head(sensors).description \o " is "
                        \o Head(sensors).stateText,
                    Tail(sensors))

\* A variant of command() that does not reset the summary before the loop.
command_KeepsSummary(a, cmd, env) ==
    LET a1 == _get_panel(a, env.items, env.system)
        a2 == api_call(a1, env.part)
        a3 == [a2 EXCEPT !.st = states[env.part.val + 1]]
        a4 == api_call(a3, env.sensors)
        old == IF a4.ss = None THEN "" ELSE a4.ss
    IN  IF a1.k = "exc" THEN a1
        ELSE IF a2.k = "exc" THEN a2
        ELSE IF ~env.part.ok THEN ApiRaise(a2, "TypeError")
        ELSE IF Upper(cmd) # "STATUS" THEN ApiReturn(a3, a3.st)
        ELSE IF a4.k = "exc" THEN a4
        ELSE IF ~env.sensors.ok THEN ApiRaise(a4, "TypeError")
        ELSE ApiReturn([a4 EXCEPT !.ss = SensorLoop(old, env.sensors.val),
                                  !.sensors = env.sensors.val], a3.st)

\* Alarmdotcom.command
command(a, cmd, env) ==
    LET a1 == _get_panel(a, env.items, env.system)
        a2 == api_call(a1, env.part)
        a3 == [a2 EXCEPT !.st = states[env.part.val + 1]]
        a4 == api_call(a3, env.sensors)
        a5 == [a4 EXCEPT !.ss = ""]
    IN  IF a1.k = "exc" THEN a1
        ELSE IF a2.k = "exc" THEN a2
        ELSE IF ~env.part.ok THEN ApiRaise(a2, "TypeError")
        ELSE IF Upper(cmd) # "STATUS" THEN ApiReturn(a3, a3.st)
        ELSE IF a4.k = "exc" THEN a4
        ELSE IF ~env.sensors.ok THEN ApiRaise(a5, "TypeError")
        ELSE ApiReturn([a5 EXCEPT !.ss = SensorLoop(a5.ss, env.sensors.val),
                                  !.sensors = env.sensors.val], a3.st)

\* try: response = self.command(...)
\* except (asyncio.TimeoutError, aiohttp.ClientError): return False
ApiTry(a) ==
    IF a.k = "exc" /\ a.v \in {"TimeoutError", "ClientError"}
    THEN ApiReturn(a, False)
    ELSE a

\* Alarmdotcom.async_update of the JSON-API client
Api_async_update(a, env) ==
    LET a1 == IF a.li # True THEN Api_async_login(a, env) ELSE a
    IN  IF a1.k = "exc" THEN a1
        ELSE ApiTry(command([a1 EXCEPT !.k = "run", !.v = "-"], "STATUS", env))

\* Alarmdotcom._send of the JSON-API client
Api_send(a, event, env) ==
    LET a1 == IF a.li # True THEN Api_async_login(a, env) ELSE a
    IN  IF a1.k = "exc" THEN a1
        ELSE ApiTry(command([a1 EXCEPT !.k = "run", !.v = "-"], event, env))

\* The operation ends in a.
ApiCommit(a) ==
    /\ api_logged_in' = a.li
    /\ api_panel_id' = a.pid
    /\ api_state' = a.st
    /\ sensor_status' = a.ss
    /\ api_op' = [op |-> a.op, ev |-> a.ev, k |-> a.k, v |-> a.v,
                  failed |-> a.failed, sensors |-> a.sensors]

\* The outcomes of the browser requests of one operation: the login page,
\* the credential POST, the panel lookup of the login and of command(), the
\* partition request and the sensor request.
Env(open, post, li, ls, items, system, part, sensors) ==
    [open |-> open, post |-> post, login_items |-> li, login_system |-> ls,
     items |-> items, system |-> system, part |-> part, sensors |-> sensors]

NoSensors == [ok |-> FALSE, val |-> <<>>]
NoPartition == [ok |-> FALSE, val |-> 0]

\* A caller awaits async_login().
ApiLogin ==
    /\ UNCHANGED formvars
    /\ \E open, post \in BOOLEAN, li \in ItemsResults, ls \in SystemResults :
           ApiCommit(Api_async_login(
               ApiBegin("login", "-"),
               Env(open, post, li, ls, li, ls, NoPartition, NoSensors)))

\* A caller awaits async_update().
ApiUpdate ==
    /\ UNCHANGED formvars
    /\ \E open, post \in BOOLEAN, li, items \in ItemsResults,
          ls, system \in SystemResults,
          part \in PartitionResults, sensors \in SensorResults :
           ApiCommit(Api_async_update(
               ApiBegin("update", "STATUS"),
               Env(open, post, li, ls, items, system, part, sensors)))

\* A caller awaits async_alarm_disarm().
ApiDisarm ==
    /\ UNCHANGED formvars
    /\ \E open, post \in BOOLEAN, li, items \in ItemsResults,
          ls, system \in SystemResults, part \in PartitionResults :
           ApiCommit(Api_send(
               ApiBegin("send", "Disarm"), "Disarm",
               Env(open, post, li, ls, items, system, part, NoSensors)))

\* A caller awaits async_alarm_arm_home().
ApiArmHome ==
    /\ UNCHANGED formvars
    /\ \E open, post \in BOOLEAN, li, items \in ItemsResults,
          ls, system \in SystemResults, part \in PartitionResults :
           ApiCommit(Api_send(
               ApiBegin("send", "Arm+Stay"), "Arm+Stay",
               Env(open, post, li, ls, items, system, part, NoSensors)))

\* A caller awaits async_alarm_arm_away().
ApiArmAway ==
    /\ UNCHANGED formvars
    /\ \E open, post \in BOOLEAN, li, items \in ItemsResults,
          ls, system \in SystemResults, part \in PartitionResults :
           ApiCommit(Api_send(
               ApiBegin("send", "Arm+Away"), "Arm+Away",
               Env(open, post, li, ls, items, system, part, NoSensors)))

NextApi ==
    \/ ApiLogin
    \/ ApiUpdate
    \/ ApiDisarm
    \/ ApiArmHome
    \/ ApiArmAway

\* The JSON-API client is used on its own: the adapter imports the
\* form-replay client, and its configuration plays no part here.
InitApi == Init /\ ~cfg.has

SpecApi == InitApi /\ [][NextApi]_vars

-----------------------------------------------------------------------------
\* C14: in the JSON-API client, a poll or a dispatch during which an API
\* request failed returns False to its caller; no exception escapes it.
C14_ApiFailureReturnsFalse ==
    (api_op.op \in {"update", "send"} /\ api_op.failed) =>
        (api_op.k = "ret" /\ api_op.v = False)

\* One entry of the sensor summary, and the entries of a sensor list in
\* order, joined by ", ".
Entry(s) == s.description \o " is " \o s.stateText

RECURSIVE Join(_)
Join(l) ==
    IF l = <<>> THEN ""
    ELSE IF Len(l) = 1 THEN Entry(l[1])
    ELSE Entry(Head(l)) \o ", " \o Join(Tail(l))

\* C15: in the JSON-API client, after a status poll that returned, the sensor
\* summary is the "<description> is <stateText>" entries of the sensor list
\* of that poll in response order joined by ", ", whatever it was before;
\* an arm or disarm command leaves the summary as it was.
C15_SummaryIsOfLastPoll ==
    [][/\ (api_op'.op = "update" /\ api_op'.k = "ret") =>
              sensor_status' = Join(api_op'.sensors)
       /\ api_op'.op = "send" => sensor_status' = sensor_status]_vars

\* C15 (witness): a poll answered with two sensors has returned and the
\* summary lists both.
C15_Witness ==
    /\ api_op.op = "update"
    /\ api_op.k = "ret"
    /\ Len(api_op.sensors) = 2
    /\ api_op.sensors[1] # api_op.sensors[2]
    /\ sensor_status \in {"Door is Closed, Window is Open",
                          "Window is Open, Door is Closed"}

=============================================================================
